---- MODULE Spec2Model ----
(***************************************************************************)
(* A model of app.py, the SRT captioner: to_timestamp, split_text,         *)
(* generate_srt and the /generate handler.                                 *)
(*                                                                         *)
(* A Python str is a sequence of one-character strings.  A Python int that *)
(* counts milliseconds is a record [d, r] standing for d * MsPerDay + r    *)
(* with 0 <= r < MsPerDay, the way timedelta itself normalises a duration  *)
(* into days and a remainder.  A float is a record [kind, v], see          *)
(* Floats below.  Every function is a pure function: a behaviour draws one *)
(* call's arguments in Init and one action applies the function.           *)
(***************************************************************************)
EXTENDS Integers, Sequences, FiniteSets, TLC

VARIABLES
    fn,            \* the function called
    pc,            \* "call" before it runs, "done" after
    text,          \* split_text: text; generate: the form's script field
    mode,          \* split_text: mode; generate: split_mode
    chunks,        \* split_text's return value, generate_srt's chunks
    duration_sec,  \* generate_srt: duration_sec (a float)
    gap_ms,        \* generate_srt: gap_ms (an int)
    start_ms,      \* generate_srt: start_ms (an int)
    ms,            \* to_timestamp: ms
    ts,            \* to_timestamp's return value
    timing,        \* generate_srt's locals curr_ms (at entry), dur_ms, gap_ms
    blocks,        \* generate_srt's loop: index, start, end, text per pass
    srt_text,      \* generate_srt's return value
    raised,        \* the exception the call ended with, or "none"
    calls,         \* generate: the functions the handler invoked, in order
    response       \* generate: what the handler answered

vars == <<fn, pc, text, mode, chunks, duration_sec, gap_ms, start_ms, ms, ts,
          timing, blocks, srt_text, raised, calls, response>>

(***************************************************************************)
(* Bounds of the model.                                                    *)
(***************************************************************************)
MaxLen == 4        \* longest script text drawn
MaxCues == 2       \* longest cue list handed to generate_srt directly

(***************************************************************************)
(* Characters and the str methods the code uses.                           *)
(***************************************************************************)
LF == "\n"
CR == "\r"
TAB == "\t"
SP == " "

\* the characters a script is drawn from: a letter, a sentence end, blanks,
\* and two line breaks
Alphabet == {"a", ".", SP, TAB, LF, CR}

\* str.isspace(), which is also the regex class \s
IsSpace(c) == c \in {SP, TAB, LF, CR}

\* the line boundaries of str.splitlines()
IsLineBreak(c) == c \in {LF, CR}

\* the regex class [ \t]
IsBlank(c) == c \in {SP, TAB}

\* the regex class [.!?]
IsSentenceEnd(c) == c \in {".", "!", "?"}

RECURSIVE LStrip(_)
LStrip(s) ==
    IF s # <<>> /\ IsSpace(Head(s)) THEN LStrip(Tail(s)) ELSE s

RECURSIVE RStrip(_)
RStrip(s) ==
    IF s # <<>> /\ IsSpace(s[Len(s)]) THEN RStrip(SubSeq(s, 1, Len(s) - 1)) ELSE s

\* str.strip()
Strip(s) == RStrip(LStrip(s))

RECURSIVE SkipBlanks(_)
SkipBlanks(s) ==
    IF s # <<>> /\ IsBlank(Head(s)) THEN SkipBlanks(Tail(s)) ELSE s

\* re.sub(r"[ \t]+", " ", s)
RECURSIVE CollapseBlanks(_)
CollapseBlanks(s) ==
    IF s = <<>> THEN <<>>
    ELSE IF IsBlank(Head(s)) THEN <<SP>> \o CollapseBlanks(SkipBlanks(s))
    ELSE <<Head(s)>> \o CollapseBlanks(Tail(s))

\* str.count(c) for a one-character c
RECURSIVE Count(_, _)
Count(s, c) ==
    IF s = <<>> THEN 0
    ELSE (IF Head(s) = c THEN 1 ELSE 0) + Count(Tail(s), c)

\* str.splitlines(): a line ends at \n, \r or \r\n; no empty last line
RECURSIVE SplitLinesFrom(_, _)
SplitLinesFrom(s, cur) ==
    IF s = <<>> THEN (IF cur = <<>> THEN <<>> ELSE <<cur>>)
    ELSE IF Head(s) = CR /\ Len(s) >= 2 /\ s[2] = LF
         THEN <<cur>> \o SplitLinesFrom(SubSeq(s, 3, Len(s)), <<>>)
    ELSE IF IsLineBreak(Head(s))
         THEN <<cur>> \o SplitLinesFrom(Tail(s), <<>>)
    ELSE SplitLinesFrom(Tail(s), Append(cur, Head(s)))

SplitLines(s) == SplitLinesFrom(s, <<>>)

RECURSIVE SkipSpaceFrom(_, _)
SkipSpaceFrom(s, i) ==
    IF i <= Len(s) /\ IsSpace(s[i]) THEN SkipSpaceFrom(s, i + 1) ELSE i

\* re.split(r"(?<=[.!?])\s+", s): a separator is a run of whitespace that
\* starts right after a sentence end
RECURSIVE ReSplitFrom(_, _, _)
ReSplitFrom(s, i, cur) ==
    IF i > Len(s) THEN <<cur>>
    ELSE IF i > 1 /\ IsSentenceEnd(s[i - 1]) /\ IsSpace(s[i])
         THEN <<cur>> \o ReSplitFrom(s, SkipSpaceFrom(s, i), <<>>)
    ELSE ReSplitFrom(s, i + 1, Append(cur, s[i]))

ReSplitSentences(s) == ReSplitFrom(s, 1, <<>>)

(***************************************************************************)
(* split_text                                                              *)
(***************************************************************************)
Modes == {"auto", "newlines", "sentences"}

\* cleaned = re.sub(r"[ \t]+", " ", text.strip())
Cleaned(t) == CollapseBlanks(Strip(t))

UsesNewlinesAtThree(m, cleaned) ==
    m = "newlines" \/ (m = "auto" /\ Count(cleaned, LF) >= 3)

\* the condition of the if: split on line breaks
UsesNewlines(m, cleaned) ==
    m = "newlines" \/ (m = "auto" /\ Count(cleaned, LF) >= 1 /\ Count(cleaned, LF) >= 2)

KeepEveryPiece(p) == TRUE

\* the filter of both comprehensions: if p.strip()
KeepPiece(p) == Strip(p) # <<>>

\* [p.strip() for p in parts if p.strip()]
StripPieces(parts) ==
    LET kept == SelectSeq(parts, KeepPiece)
    IN  [i \in 1..Len(kept) |-> Strip(kept[i])]

split_text(t, m) ==
    LET cleaned == Cleaned(t)
    IN  IF UsesNewlines(m, cleaned)
        THEN StripPieces(SplitLines(cleaned))
        ELSE StripPieces(ReSplitSentences(cleaned))

(***************************************************************************)
(* Millisecond counts.  Python's int is unbounded; [d, r] stands for       *)
(* d * MsPerDay + r, 0 <= r < MsPerDay, so that counts up to the limit of  *)
(* timedelta and past it are values of the model.                          *)
(***************************************************************************)
MsPerDay == 24 * 60 * 60 * 1000
SecPerDay == 24 * 60 * 60

\* the largest number of days a timedelta holds (timedelta.max.days)
MaxDays == 999999999

MsNorm(d, r) == [d |-> d + (r \div MsPerDay), r |-> r % MsPerDay]

\* a small int as a millisecond count
MsOfInt(n) == MsNorm(0, n)

MsAdd(a, b) == MsNorm(a.d + b.d, a.r + b.r)

MsLeq(a, b) == a.d < b.d \/ (a.d = b.d /\ a.r <= b.r)

MsLess(a, b) == a.d < b.d \/ (a.d = b.d /\ a.r < b.r)

\* max(a, b) of two ints
MsMax(a, b) == IF MsLeq(a, b) THEN b ELSE a

MsZero == MsOfInt(0)

(***************************************************************************)
(* str(n) and the format specs :02 and :03 of an f-string, for n >= 0.     *)
(***************************************************************************)
DigitChars == <<"0", "1", "2", "3", "4", "5", "6", "7", "8", "9">>

RECURSIVE Digits(_)
Digits(n) ==
    IF n < 10 THEN <<DigitChars[n + 1]>>
    ELSE Digits(n \div 10) \o <<DigitChars[(n % 10) + 1]>>

RECURSIVE ZeroPad(_, _)
ZeroPad(s, width) ==
    IF Len(s) < width THEN ZeroPad(<<"0">> \o s, width) ELSE s

(***************************************************************************)
(* to_timestamp                                                            *)
(***************************************************************************)
\* timedelta(milliseconds=ms) raises OverflowError past MaxDays days
TimedeltaOverflows(m) == m.d > MaxDays \/ m.d < -MaxDays

\* a count of seconds, [d, s] standing for d * SecPerDay + s
SecAtLeast(sec, p) == sec.d > p.d \/ (sec.d = p.d /\ sec.s >= p.s)

\* 2^44, 2^45 and 2^46 seconds: from each on, a double is one bit coarser
Two44 == [d |-> 203613264, s |-> 34816]
Two45 == [d |-> 407226528, s |-> 69632]
Two46 == [d |-> 814453057, s |-> 52864]

\* t.total_seconds() is the count of microseconds divided by 10^6, rounded to
\* the nearest double: from 2^44 seconds on the doubles are 2^-8 apart and a
\* fraction of .999 rounds to the next whole second, from 2^45 on (2^-7) so do
\* .997 and more, from 2^46 on (2^-6) .993 and more
RoundsToNextSecond(sec, frac) ==
    \/ SecAtLeast(sec, Two46) /\ frac >= 993
    \/ SecAtLeast(sec, Two45) /\ frac >= 997
    \/ SecAtLeast(sec, Two44) /\ frac >= 999

\* total_seconds = int(t.total_seconds()), for ms >= 0
TotalSeconds(m) ==
    LET sec == [d |-> m.d, s |-> m.r \div 1000]
    IN  IF RoundsToNextSecond(sec, m.r % 1000)
        THEN [d |-> sec.d + ((sec.s + 1) \div SecPerDay), s |-> (sec.s + 1) % SecPerDay]
        ELSE sec

\* hours = total_seconds // 3600, a count that may pass 2^31: [hi, lo] stands
\* for hi * 1000 + lo, 0 <= lo < 1000
HoursOf(d, hourOfDay) ==
    LET low == (d % 1000) * 24 + hourOfDay
    IN  [hi |-> (d \div 1000) * 24 + (low \div 1000), lo |-> low % 1000]

\* f"{hours:02}"
FormatHours(h) ==
    IF h.hi = 0 THEN ZeroPad(Digits(h.lo), 2)
    ELSE Digits(h.hi) \o ZeroPad(Digits(h.lo), 3)

\* f"{hours:02}:{minutes:02}:{seconds:02},{millis:03}"
FormatTimestamp(hours, minutes, seconds, millis) ==
    FormatHours(hours) \o <<":">> \o ZeroPad(Digits(minutes), 2) \o <<":">>
        \o ZeroPad(Digits(seconds), 2) \o <<",">> \o ZeroPad(Digits(millis), 3)

\* to_timestamp(ms) for ms >= 0: the exception raised, or the string returned
to_timestamp(m) ==
    IF TimedeltaOverflows(m)
    THEN [raised |-> "OverflowError", value |-> <<>>]
    ELSE LET total_seconds == TotalSeconds(m)
             hours == HoursOf(total_seconds.d, total_seconds.s \div 3600)
             minutes == (total_seconds.s % 3600) \div 60
             seconds == total_seconds.s % 60
             millis == m.r % 1000
         IN  [raised |-> "none",
              value |-> FormatTimestamp(hours, minutes, seconds, millis)]

(***************************************************************************)
(* Floats.  [kind |-> "finite", v |-> n] is the float n / 10000, drawn     *)
(* where the product with 1000 is exact to the digit; "huge" is a finite   *)
(* float of magnitude 1e306, whose product with 1000 is past the largest   *)
(* double; "inf" is float("inf"); both carry their sign in v; "nan" is     *)
(* float("nan").                                                           *)
(***************************************************************************)
Finite(n) == [kind |-> "finite", v |-> n]
Huge(sign) == [kind |-> "huge", v |-> sign]
Inf(sign) == [kind |-> "inf", v |-> sign]
NaN == [kind |-> "nan", v |-> 0]

\* duration_sec * 1000 in IEEE arithmetic: an overflow gives an infinity
TimesThousand(x) ==
    CASE x.kind = "finite" -> Finite(x.v * 1000)
      [] x.kind = "huge" -> Inf(x.v)
      [] OTHER -> x

\* the integer nearest to n / 10000, a tie going to the even one (round())
RoundToInt(n) ==
    LET low == n \div 10000
        rest == n % 10000
    IN  IF rest > 5000 \/ (rest = 5000 /\ low % 2 = 1) THEN low + 1 ELSE low

\* n / 10000 cut towards zero
TruncToInt(n) ==
    IF n >= 0 THEN n \div 10000 ELSE -((-n) \div 10000)

\* int(x) of a float: the exception raised, or the int
IntOfFloat(x) ==
    CASE x.kind = "nan" -> [raised |-> "ValueError", value |-> MsZero]
      [] x.kind = "finite" -> [raised |-> "none", value |-> MsOfInt(TruncToInt(x.v))]
      [] OTHER -> [raised |-> "OverflowError", value |-> MsZero]

(***************************************************************************)
(* generate_srt                                                            *)
(***************************************************************************)
\* the floor of the cue duration, in milliseconds
MinDurationMs == 500

\* enumerate(chunks, start=1)
FirstIndex == 1

\* curr_ms = max(0, int(start_ms))
EffectiveStart(start) == MsMax(MsZero, start)

\* gap_ms = max(0, int(gap_ms))
EffectiveGap(gap) == MsMax(MsZero, gap)

\* dur_ms = max(500, int(duration_sec * 1000)): the exception, or the int
EffectiveDuration(duration) ==
    LET n == IntOfFloat(TimesThousand(duration))
    IN  [raised |-> n.raised, value |-> MsMax(MsOfInt(MinDurationMs), n.value)]

\* end = start + dur_ms
BlockEnd(start, dur) == MsAdd(start, dur)

NextCursorWithoutGap(end, gap) == end

\* curr_ms = end + gap_ms
NextCursor(end, gap) == MsAdd(end, gap)

\* f"{to_timestamp(start)} --> {to_timestamp(end)}": the first exception
\* raised, or the line
TimestampLine(start, end) ==
    LET a == to_timestamp(start)
        b == to_timestamp(end)
    IN  IF a.raised # "none" THEN a
        ELSE IF b.raised # "none" THEN b
        ELSE [raised |-> "none",
              value |-> a.value \o <<SP, "-", "-", ">", SP>> \o b.value]

\* the passes of the for loop from the i-th chunk on, the cursor at curr
RECURSIVE Passes(_, _, _, _, _)
Passes(cs, i, curr, dur, gap) ==
    IF i > Len(cs) THEN <<>>
    ELSE LET start == curr
             end == BlockEnd(start, dur)
             line == TimestampLine(start, end)
         IN  <<[index |-> FirstIndex + i - 1, start |-> start, end |-> end,
                text |-> cs[i], raised |-> line.raised, line |-> line.value]>>
             \o Passes(cs, i + 1, NextCursor(end, gap), dur, gap)

LinesWithoutSeparator(b) == <<Digits(b.index), b.line, b.text>>

\* the four lines a pass appends to srt_lines
LinesOfBlock(b) == <<Digits(b.index), b.line, b.text, <<>>>>

RECURSIVE SrtLines(_)
SrtLines(bs) ==
    IF bs = <<>> THEN <<>> ELSE LinesOfBlock(Head(bs)) \o SrtLines(Tail(bs))

\* "\n".join(lines)
RECURSIVE JoinLines(_)
JoinLines(lines) ==
    IF lines = <<>> THEN <<>>
    ELSE IF Len(lines) = 1 THEN lines[1]
    ELSE lines[1] \o <<LF>> \o JoinLines(Tail(lines))

\* the first exception a pass raised, or "none"
RECURSIVE FirstRaised(_)
FirstRaised(bs) ==
    IF bs = <<>> THEN "none"
    ELSE IF Head(bs).raised # "none" THEN Head(bs).raised
    ELSE FirstRaised(Tail(bs))

NoTiming == [start |-> MsZero, dur |-> MsZero, gap |-> MsZero]

Raise(e) == [raised |-> e, timing |-> NoTiming, blocks |-> <<>>, text |-> <<>>]

\* generate_srt(chunks, duration_sec, gap_ms, start_ms): the exception it
\* ends with, or the document, with the locals that made it
generate_srt(cs, duration, gap, start) ==
    LET curr_ms == EffectiveStart(start)
        dur_ms == EffectiveDuration(duration)
        gap_eff == EffectiveGap(gap)
        passes == Passes(cs, 1, curr_ms, dur_ms.value, gap_eff)
    IN  IF dur_ms.raised # "none" THEN Raise(dur_ms.raised)
        ELSE IF FirstRaised(passes) # "none" THEN Raise(FirstRaised(passes))
        ELSE [raised |-> "none",
              timing |-> [start |-> curr_ms, dur |-> dur_ms.value, gap |-> gap_eff],
              blocks |-> passes,
              text |-> Strip(JoinLines(SrtLines(passes))) \o <<LF>>]

(***************************************************************************)
(* The /generate handler                                                   *)
(***************************************************************************)
\* a numeric form field float() or int() cannot parse
Malformed == [kind |-> "malformed", v |-> 0]

NeverMissing(script) == FALSE

\* if not text
ScriptMissing(script) == script = <<>>

\* generate(): the form's fields in, the calls made and the response out
generate(script, split_mode, duration, gap, start) ==
    LET stripped == Strip(script)
    IN  IF duration = Malformed
        THEN [calls |-> <<>>, chunks |-> <<>>, srt |-> Raise("ValueError"),
              response |-> "exception"]
        ELSE IF ScriptMissing(stripped)
        THEN [calls |-> <<>>, chunks |-> <<>>, srt |-> Raise("none"),
              response |-> "error_page"]
        ELSE LET cs == split_text(stripped, split_mode)
                 srt == generate_srt(cs, duration, gap, start)
             IN  [calls |-> <<"split_text", "generate_srt">>, chunks |-> cs,
                  srt |-> srt,
                  response |-> IF srt.raised = "none" THEN "result_page"
                               ELSE "exception"]

(***************************************************************************)
(* The calls.                                                              *)
(***************************************************************************)
RECURSIVE Strings(_)
Strings(n) ==
    IF n = 0 THEN {<<>>}
    ELSE LET shorter == Strings(n - 1)
         IN  shorter \cup {Append(s, c) : s \in {x \in shorter : Len(x) = n - 1}, c \in Alphabet}

Texts == Strings(MaxLen)

\* the millisecond counts to_timestamp is called with: the spec's example,
\* the borders of the fields, the three ranges where a double is too coarse,
\* the last day a timedelta holds and the day after
TimestampDays == {0, 1, 4, 203613264, 203613265, 407226529, 814453058, MaxDays, MaxDays + 1}
TimestampRests == {0, 7, 999, 1000, 59999, 60000, 3599999, 3600000, 3725007,
                   36000000, 86399992, 86399993, 86399996, 86399997, 86399998, 86399999}

\* the value of a variable the call does not use
NoMs == MsZero
NoFloat == Finite(0)

InitSplitText ==
    /\ fn = "split_text" /\ pc = "call"
    /\ text \in Texts /\ mode \in Modes
    /\ chunks = <<>> /\ duration_sec = NoFloat /\ gap_ms = NoMs /\ start_ms = NoMs
    /\ ms = NoMs /\ ts = <<>> /\ timing = NoTiming /\ blocks = <<>>
    /\ srt_text = <<>> /\ raised = "none" /\ calls = <<>> /\ response = "none"

CallSplitText ==
    /\ pc = "call" /\ fn = "split_text"
    /\ chunks' = split_text(text, mode)
    /\ pc' = "done"
    /\ UNCHANGED <<fn, text, mode, duration_sec, gap_ms, start_ms, ms, ts,
                   timing, blocks, srt_text, raised, calls, response>>

InitToTimestamp ==
    /\ fn = "to_timestamp" /\ pc = "call"
    /\ ms \in {[d |-> d, r |-> r] : d \in TimestampDays, r \in TimestampRests}
    /\ text = <<>> /\ mode = "auto"
    /\ chunks = <<>> /\ duration_sec = NoFloat /\ gap_ms = NoMs /\ start_ms = NoMs
    /\ ts = <<>> /\ timing = NoTiming /\ blocks = <<>>
    /\ srt_text = <<>> /\ raised = "none" /\ calls = <<>> /\ response = "none"

CallToTimestamp ==
    /\ pc = "call" /\ fn = "to_timestamp"
    /\ \E ret \in {to_timestamp(ms)} :
           raised' = ret.raised /\ ts' = ret.value
    /\ pc' = "done"
    /\ UNCHANGED <<fn, text, mode, chunks, duration_sec, gap_ms, start_ms, ms,
                   timing, blocks, srt_text, calls, response>>

\* the cue texts generate_srt is called with: three a Cue may be, one with
\* a blank line inside, an empty one
CueSamples == {<<"a">>, <<"a", ".">>, <<"a", SP, "a">>, <<"a", LF, LF, "a">>, <<>>}

RECURSIVE CueLists(_)
CueLists(n) ==
    IF n = 0 THEN {<<>>}
    ELSE LET shorter == CueLists(n - 1)
         IN  shorter \cup {Append(l, c) : l \in {x \in shorter : Len(x) = n - 1}, c \in CueSamples}

\* durations: -0.3 s, 0 s, 0.4996 s, 0.5 s, 0.7004 s, 0.7005 s, 0.7006 s and
\* the default 2.5 s; 1e306, -1e306, inf, -inf, nan
Durations == {Finite(n) : n \in {-3000, 0, 4996, 5000, 7004, 7005, 7006, 25000}}
             \cup {Huge(1), Huge(-1), Inf(1), Inf(-1), NaN}

Gaps == {MsOfInt(n) : n \in {-50, 0, 200}}

\* start offsets: negative, zero, 1.5 s, one where a double is too coarse,
\* one in the last second a timedelta holds, one past it
Starts == {MsOfInt(-5), MsOfInt(0), MsOfInt(1500),
           [d |-> 203613265, r |-> 999], [d |-> MaxDays, r |-> 86399000],
           [d |-> MaxDays + 1, r |-> 0]}

InitGenerateSrt ==
    /\ fn = "generate_srt" /\ pc = "call"
    /\ chunks \in CueLists(MaxCues)
    /\ duration_sec \in Durations /\ gap_ms \in Gaps /\ start_ms \in Starts
    /\ text = <<>> /\ mode = "auto" /\ ms = NoMs
    /\ ts = <<>> /\ timing = NoTiming /\ blocks = <<>>
    /\ srt_text = <<>> /\ raised = "none" /\ calls = <<>> /\ response = "none"

CallGenerateSrt ==
    /\ pc = "call" /\ fn = "generate_srt"
    /\ \E ret \in {generate_srt(chunks, duration_sec, gap_ms, start_ms)} :
           /\ raised' = ret.raised
           /\ timing' = ret.timing
           /\ blocks' = ret.blocks
           /\ srt_text' = ret.text
    /\ pc' = "done"
    /\ UNCHANGED <<fn, text, mode, chunks, duration_sec, gap_ms, start_ms, ms,
                   ts, calls, response>>

\* the form's numeric fields: the defaults, a duration of inf, one float()
\* cannot parse
FormDurations == {Finite(25000), Inf(1), Malformed}

InitGenerate ==
    /\ fn = "generate" /\ pc = "call"
    /\ text \in Texts /\ mode \in Modes
    /\ duration_sec \in FormDurations /\ gap_ms = MsOfInt(200) /\ start_ms = MsOfInt(0)
    /\ chunks = <<>> /\ ms = NoMs
    /\ ts = <<>> /\ timing = NoTiming /\ blocks = <<>>
    /\ srt_text = <<>> /\ raised = "none" /\ calls = <<>> /\ response = "none"

Generate ==
    /\ pc = "call" /\ fn = "generate"
    /\ \E ret \in {generate(text, mode, duration_sec, gap_ms, start_ms)} :
           /\ calls' = ret.calls
           /\ chunks' = ret.chunks
           /\ raised' = ret.srt.raised
           /\ timing' = ret.srt.timing
           /\ blocks' = ret.srt.blocks
           /\ srt_text' = ret.srt.text
           /\ response' = ret.response
    /\ pc' = "done"
    /\ UNCHANGED <<fn, text, mode, duration_sec, gap_ms, start_ms, ms, ts>>

Init == InitToTimestamp \/ InitSplitText \/ InitGenerateSrt \/ InitGenerate

Next == CallToTimestamp \/ CallSplitText \/ CallGenerateSrt \/ Generate

Spec == Init /\ [][Next]_vars

(***************************************************************************)
(* What the claims speak of.                                               *)
(***************************************************************************)
Done(f) == pc = "done" /\ fn = f

\* generate_srt returned a document, called directly or by the handler
SrtReturned ==
    /\ pc = "done" /\ raised = "none"
    /\ fn = "generate_srt" \/ (fn = "generate" /\ response = "result_page")

\* split_text returned, called directly or by the handler
SplitReturned ==
    Done("split_text") \/ (Done("generate") /\ calls # <<>>)

\* a Cue of the data model: not empty, trimmed, no line break inside
ValidCue(c) ==
    /\ c # <<>>
    /\ ~IsSpace(c[1]) /\ ~IsSpace(c[Len(c)])
    /\ \A i \in 1..Len(c) : ~IsLineBreak(c[i])

\* a document cut at every \n, the way a reader of the file sees its lines
LinesOfDocument(doc) ==
    LET at == {i \in 1..Len(doc) : doc[i] = LF}
        n == Cardinality(at)
        pos(k) == IF k = 0 THEN 0
                  ELSE IF k = n + 1 THEN Len(doc) + 1
                  ELSE CHOOSE i \in at : Cardinality({j \in at : j <= i}) = k
    IN  [k \in 1..(n + 1) |-> SubSeq(doc, pos(k - 1) + 1, pos(k) - 1)]

\* the runs of lines between blank lines
RECURSIVE BlocksOfLines(_, _)
BlocksOfLines(lines, cur) ==
    IF lines = <<>> THEN (IF cur = <<>> THEN <<>> ELSE <<cur>>)
    ELSE IF Head(lines) = <<>>
         THEN (IF cur = <<>> THEN <<>> ELSE <<cur>>) \o BlocksOfLines(Tail(lines), <<>>)
    ELSE BlocksOfLines(Tail(lines), Append(cur, Head(lines)))

ParsedBlocks(doc) == BlocksOfLines(LinesOfDocument(doc), <<>>)

IsDigit(c) == c \in {"0", "1", "2", "3", "4", "5", "6", "7", "8", "9"}

\* HH:MM:SS,mmm with two or more digits of hours
IsTimestamp(s) ==
    LET h == Len(s) - 10
    IN  /\ h >= 2
        /\ \A i \in 1..h : IsDigit(s[i])
        /\ s[h + 1] = ":" /\ IsDigit(s[h + 2]) /\ IsDigit(s[h + 3])
        /\ s[h + 4] = ":" /\ IsDigit(s[h + 5]) /\ IsDigit(s[h + 6])
        /\ s[h + 7] = "," /\ IsDigit(s[h + 8]) /\ IsDigit(s[h + 9]) /\ IsDigit(s[h + 10])

IsTimestampLine(l) ==
    \E k \in 1..Len(l) :
        /\ IsTimestamp(SubSeq(l, 1, k))
        /\ SubSeq(l, k + 1, k + 5) = <<SP, "-", "-", ">", SP>>
        /\ IsTimestamp(SubSeq(l, k + 6, Len(l)))

\* the number of line-break characters of a text
RECURSIVE LineBreaks(_)
LineBreaks(s) ==
    IF s = <<>> THEN 0
    ELSE (IF IsLineBreak(Head(s)) THEN 1 ELSE 0) + LineBreaks(Tail(s))

\* the float 0.5
Half == Finite(5000)

\* a float below 0.5
BelowHalf(x) ==
    \/ x.kind = "finite" /\ x.v < Half.v
    \/ x.kind \in {"huge", "inf"} /\ x.v < 0

\* a finite float's product with 1000, cut towards zero
ProductCut(x) ==
    IF x.v >= 0 THEN (x.v * 1000) \div 10000 ELSE -((-(x.v * 1000)) \div 10000)

\* a finite float's product with 1000, rounded to the nearest integer, a tie
\* to the even one
ProductRounded(x) ==
    LET n == x.v * 1000
        low == n \div 10000
        rest == n % 10000
    IN  IF rest > 5000 \/ (rest = 5000 /\ low % 2 = 1) THEN low + 1 ELSE low

AtLeast500(n) == IF n < 500 THEN 500 ELSE n

\* ms div 3600000, as digits
HoursClaimed(m) == FormatHours(HoursOf(m.d, m.r \div 3600000))

\* the timestamp the spec gives a millisecond count: every field by floor
\* division of the count itself
ClaimedTimestamp(m) ==
    HoursClaimed(m) \o <<":">> \o ZeroPad(Digits((m.r \div 60000) % 60), 2) \o <<":">>
        \o ZeroPad(Digits((m.r \div 1000) % 60), 2) \o <<",">>
        \o ZeroPad(Digits(m.r % 1000), 3)

(***************************************************************************)
(* The claims.                                                             *)
(***************************************************************************)

\* C1: in every document generate_srt returns, the first block starts at the
\* effective start S = max(0, start_ms), every block ends D after its start,
\* D the effective duration, and the next block starts G = max(0, gap_ms)
\* after that end; so the starts strictly increase and no two intervals
\* overlap.
C1_IntervalsChain ==
    SrtReturned =>
        LET S == IF MsLess(start_ms, MsZero) THEN MsZero ELSE start_ms
            G == IF MsLess(gap_ms, MsZero) THEN MsZero ELSE gap_ms
            D == timing.dur
        IN  /\ Len(blocks) = Len(chunks)
            /\ MsLeq(MsOfInt(500), D)
            /\ blocks # <<>> => blocks[1].start = S
            /\ \A i \in 1..Len(blocks) : blocks[i].end = MsAdd(blocks[i].start, D)
            /\ \A i \in 1..(Len(blocks) - 1) :
                   /\ blocks[i + 1].start = MsAdd(blocks[i].end, G)
                   /\ MsLess(blocks[i].start, blocks[i + 1].start)
                   /\ MsLeq(blocks[i].end, blocks[i + 1].start)

\* generate_srt returned two blocks with a gap between them, from a negative
\* start offset
C1_Witness ==
    /\ Done("generate_srt") /\ raised = "none"
    /\ Len(blocks) = 2 /\ gap_ms = MsOfInt(200) /\ start_ms = MsOfInt(-5)
    /\ blocks[2].start = MsOfInt(2700) /\ duration_sec = Finite(25000)

\* C2: for valid cues, the document generate_srt returns, cut at its blank
\* lines, has one block per cue, and block k is the line k, one timestamp
\* line and the k-th cue's text unchanged.
C2_BlocksRoundTrip ==
    (SrtReturned /\ \A k \in 1..Len(chunks) : ValidCue(chunks[k])) =>
        LET parsed == ParsedBlocks(srt_text)
        IN  /\ Len(parsed) = Len(chunks)
            /\ \A k \in 1..Len(parsed) :
                   /\ Len(parsed[k]) = 3
                   /\ parsed[k][1] = Digits(k)
                   /\ IsTimestampLine(parsed[k][2])
                   /\ parsed[k][3] = chunks[k]

\* generate_srt returned the document of two different valid cues
C2_Witness ==
    /\ Done("generate_srt") /\ raised = "none"
    /\ chunks = << <<"a", SP, "a">>, <<"a", ".">> >>
    /\ Len(ParsedBlocks(srt_text)) = 2

C4_CuesAreSingleLines ==
    SplitReturned =>
        \A k \in 1..Len(chunks) : \A i \in 1..Len(chunks[k]) : ~IsLineBreak(chunks[k][i])

\* C5: split_text returns no empty string, and no piece that starts or ends
\* with whitespace.
C5_NoEmptyTrimmedPieces ==
    SplitReturned =>
        \A k \in 1..Len(chunks) :
            /\ chunks[k] # <<>>
            /\ ~IsSpace(chunks[k][1]) /\ ~IsSpace(chunks[k][Len(chunks[k])])

\* split_text in newlines mode met an empty line between two lines and
\* returned the two lines
C5_Witness ==
    /\ Done("split_text") /\ mode = "newlines"
    /\ Len(SplitLines(Cleaned(text))) = 3 /\ Len(chunks) = 2

\* C6 as stated: the effective duration is max(500, round(duration * 1000)).
C6_DurationIsRounded ==
    (Done("generate_srt") /\ raised = "none") =>
        timing.dur = MsOfInt(AtLeast500(ProductRounded(duration_sec)))

\* C6 as amended: the effective duration is max(500, int(duration * 1000)):
\* the product is cut towards zero, 700.6 giving 700.
C6_DurationIsCut ==
    (Done("generate_srt") /\ raised = "none") =>
        /\ duration_sec.kind = "finite"
        /\ timing.dur = MsOfInt(AtLeast500(ProductCut(duration_sec)))

\* generate_srt returned for a duration of 0.7006 s, with 700 ms per cue
C6_Witness ==
    /\ Done("generate_srt") /\ raised = "none"
    /\ duration_sec = Finite(7006) /\ timing.dur = MsOfInt(700)
    /\ blocks # <<>>

\* C7: a call with a duration below 0.5 s ends as the same call with 0.5 s
\* does: with the same text.
C7_BelowHalfIsHalf ==
    (Done("generate_srt") /\ BelowHalf(duration_sec)) =>
        \E half \in {generate_srt(chunks, Half, gap_ms, start_ms)} :
            raised = half.raised /\ srt_text = half.text

\* C8: generate_srt raises for no numeric duration, gap and start.
C8_NeverRaises ==
    Done("generate_srt") => raised = "none"

\* C9: for ms >= 0, to_timestamp returns HH:MM:SS,mmm with HH = ms div
\* 3600000, MM = (ms div 60000) mod 60, SS = (ms div 1000) mod 60 and
\* mmm = ms mod 1000, however large ms is.
C9_TimestampFields ==
    Done("to_timestamp") => raised = "none" /\ ts = ClaimedTimestamp(ms)

\* C10: the handler rejects an empty or whitespace-only script before it
\* calls split_text or generate_srt, and whenever it calls generate_srt
\* split_text has returned at least one cue.
C10_NeverZeroCues ==
    Done("generate") =>
        IF Strip(text) = <<>>
        THEN calls = <<>> /\ response \in {"error_page", "exception"}
        ELSE calls # <<>> => (calls = <<"split_text", "generate_srt">> /\ chunks # <<>>)

\* the handler answered a whitespace-only script with its error page
C10_Witness ==
    /\ Done("generate") /\ text # <<>> /\ Strip(text) = <<>>
    /\ response = "error_page" /\ calls = <<>>

====
